---- MODULE Spec2Model ----
(***************************************************************************)
(* Model of backend/routes/irrigation.py: the schedule ingestion handler   *)
(* receive_schedule, the background loop monitor_schedules and the two     *)
(* module globals they share, active_schedules and schedule_thread.        *)
(*                                                                         *)
(* Request handlers run on the threads of Flask's threaded server, the     *)
(* loop on threads started by receive_schedule.  CPython may switch        *)
(* threads between any two bytecodes, so a step of the model ends at each  *)
(* access to a global (active_schedules, schedule_thread, the wall clock)  *)
(* and at each call to mqtt_service; statements that touch only locals, or *)
(* ml_service and log_irrigation, which share nothing with the loop, are   *)
(* part of the step of the global access that follows or precedes them.    *)
(*                                                                         *)
(* Numbers: durations are in 1/100 minute (22.5 min = 2250) and volumes in *)
(* 1/1000 m3 (0.6 m3 = 600), so that fractional minutes stay integers.     *)
(***************************************************************************)
EXTENDS Integers, Sequences, FiniteSets, TLC

\* ---------------------------------------------------------------- bounds

\* The wall clock runs over the minutes 0..MaxClock.
MaxClock == 2

\* The number of schedule-update requests the server receives.
MaxRequests == 2

\* The request-handling threads of the server (requests handled at once).
Handlers == {"h1", "h2"}

\* time.sleep(60), lines 212 and 216, in minutes.
SleepMinutes == 1

\* Fixed point: 1 minute = Centi units of duration.
Centi == 10 * 10

\* The minutes of a day the model keeps, as strftime('%H:%M') prints them.
Times == <<"08:00", "08:01">>

\* ------------------------------------------------------- values and inputs

None == "None"

\* schedule_thread = None, line 15: thread ids start at 1.
NoThread == 0

\* None where a number is expected (log_irrigation's duration and volume).
NoneNum == 0 - 1

WeekDays ==
    <<"Monday", "Tuesday", "Wednesday", "Thursday", "Friday", "Saturday", "Sunday">>

\* The minute t of the wall clock as datetime.now() reports it; minute 0 is
\* Monday 08:00.
current_day(t) == WeekDays[((t \div Len(Times)) % 7) + 1]

current_hour_min(t) == Times[(t % Len(Times)) + 1]

day_mapping ==
    [e \in {WeekDays[i] : i \in 1..7} |->
        CASE e = "Monday" -> "Lundi"
          [] e = "Tuesday" -> "Mardi"
          [] e = "Wednesday" -> "Mercredi"
          [] e = "Thursday" -> "Jeudi"
          [] e = "Friday" -> "Vendredi"
          [] e = "Saturday" -> "Samedi"
          [] e = "Sunday" -> "Dimanche"]

\* day_mapping.get(current_day)
french_day(t) ==
    IF current_day(t) \in DOMAIN day_mapping THEN day_mapping[current_day(t)] ELSE None

\* One day entry of a submitted payload.
Sched(en, st) == [enabled |-> en, startTime |-> st]

\* The order in which schedules.items() yields the day keys.
DayOrder == <<"Lundi", "Mardi">>

\* The payloads a request may carry: the 'schedules' object of its JSON body.
Payloads ==
    { [d \in {"Lundi"} |-> Sched(TRUE, "08:00")],
      [d \in {"Lundi", "Mardi"} |->
          IF d = "Lundi" THEN Sched(FALSE, "08:00") ELSE Sched(TRUE, "08:00")],
      [d \in {"Lundi", "Mardi"} |->
          IF d = "Lundi" THEN Sched(TRUE, "08:01") ELSE Sched(TRUE, "08:00")] }

\* What a call ml_service.predict_irrigation(default_features) may do: return a
\* prediction (ok) or raise.
Prediction(duree, volume) == [ok |-> TRUE, duree_minutes |-> duree, volume_m3 |-> volume]

Raised == [ok |-> FALSE, duree_minutes |-> 0, volume_m3 |-> 0]

Outcomes == {Prediction(2250, 900), Prediction(2251, 750), Raised}

\* ------------------------------------------------------------------ state

VARIABLES
    clock,              \* the wall clock, in minutes
    active_schedules,   \* the global dict: day key -> analysed slot
    schedule_thread,    \* the global: NoThread or the id of a loop thread
    hpc,                \* each handler's position in receive_schedule
    response,           \* each handler's last response status
    n_requests,         \* requests received so far
    req_no,             \* each handler's request: its number of arrival
    mpc,                \* each loop thread's position in monitor_schedules
    current_time,       \* each loop thread's datetime.now() of this tick
    schedule,           \* each loop thread's local slot of this tick
    sleep_left,         \* each loop thread's minutes left of time.sleep(60)
    call,               \* each loop thread's call to mqtt_service of this tick
    fired,              \* the calls mqtt_service has received: (thread, minute)
    log,                \* the calls log_irrigation has received
    written_payload,    \* the payload whose analysis the store holds
    written_outcome,    \* the outcomes of the predict calls of that analysis
    store_seen,         \* each loop thread: the stores held while this tick decides
    data,               \* each handler's local schedules object
    todo,               \* each handler's days still to analyse
    partial,            \* each handler's local analyzed_schedules so far
    predicted,          \* each handler's outcomes of its predict calls so far
    changed,            \* each handler: has its request altered the store?
    answer              \* the answer of the status query, if the last step is one

vars ==
    <<clock, active_schedules, schedule_thread, hpc, response, n_requests, req_no,
      mpc, current_time, schedule, sleep_left, call, fired, log, written_payload,
      written_outcome, store_seen, data, todo, partial, predicted, changed, answer>>

hvars == <<hpc, response, n_requests, req_no, changed>>

lvars == <<data, todo, partial, predicted>>

wvars == <<written_payload, written_outcome>>

mvars == <<mpc, current_time, schedule, sleep_left, call>>

EmptyDict == [d \in {} |-> None]

\* The body of the answer of get_schedule_status, lines 223-226 (current_time
\* left out); answered tells an answer from none.
StatusBody(store, alive, answered) ==
    [active_schedules |-> store, monitoring_active |-> alive, answered |-> answered]

\* No answer: the last step is not a status query.
NoStatus == StatusBody(EmptyDict, FALSE, FALSE)

\* The loop threads created so far.
Threads == DOMAIN mpc

Init ==
    /\ clock = 0
    /\ active_schedules = EmptyDict
    /\ schedule_thread = NoThread
    /\ hpc = [h \in Handlers |-> "idle"]
    /\ response = [h \in Handlers |-> 0]
    /\ n_requests = 0
    /\ req_no = [h \in Handlers |-> 0]
    /\ mpc = <<>>
    /\ current_time = <<>>
    /\ schedule = <<>>
    /\ sleep_left = <<>>
    /\ call = <<>>
    /\ fired = {}
    /\ log = {}
    /\ written_payload = EmptyDict
    /\ written_outcome = EmptyDict
    /\ store_seen = <<>>
    /\ data = [h \in Handlers |-> EmptyDict]
    /\ todo = [h \in Handlers |-> <<>>]
    /\ partial = [h \in Handlers |-> EmptyDict]
    /\ predicted = [h \in Handlers |-> EmptyDict]
    /\ changed = [h \in Handlers |-> FALSE]
    /\ answer = NoStatus

\* ---------------------------------------------------------------- helpers

\* d1 | {k: v}
Put(dict, k, v) == [x \in DOMAIN dict \cup {k} |-> IF x = k THEN v ELSE dict[x]]

\* A variant that takes every slot for enabled.
GetEnabledAlways(s) == TRUE

\* schedule.get('enabled'), lines 112 and 186
GetEnabled(s) == s.enabled

\* lines 121-126: {**schedule, 'ai_duration_minutes': ..., 'ai_optimized': True}
OptimizedSlot(s, prediction) ==
    [enabled |-> s.enabled, startTime |-> s.startTime,
     ai_duration_minutes |-> prediction.duree_minutes,
     ai_volume_m3 |-> prediction.volume_m3,
     ai_optimized |-> TRUE]

\* A variant whose fallback slot passes for an optimized one.
FallbackSlotOptimized(s) ==
    [enabled |-> s.enabled, startTime |-> s.startTime,
     ai_duration_minutes |-> 30 * Centi,
     ai_volume_m3 |-> 600,
     ai_optimized |-> TRUE]

\* lines 130-135: the fallback slot, 30 minutes and 0.6 m3
FallbackSlot(s) ==
    [enabled |-> s.enabled, startTime |-> s.startTime,
     ai_duration_minutes |-> 30 * Centi,
     ai_volume_m3 |-> 600,
     ai_optimized |-> FALSE]

\* A variant in which a failed prediction discards the days analysed before it.
AnalyzeDayResetOnFailure(day, s, outcome, analyzed) ==
    IF s.enabled
    THEN IF outcome.ok
         THEN Put(analyzed, day, OptimizedSlot(s, outcome))
         ELSE Put(EmptyDict, day, FallbackSlot(s))
    ELSE analyzed

\* lines 112-135: one turn of the loop: a day that is not enabled is skipped, an
\* enabled day gets the optimized slot, or the fallback slot when predict raised.
AnalyzeDay(day, s, outcome, analyzed) ==
    IF GetEnabled(s)
    THEN Put(analyzed, day,
             IF outcome.ok THEN OptimizedSlot(s, outcome) ELSE FallbackSlot(s))
    ELSE analyzed

\* lines 110-135: for day, schedule in schedules.items(), from analyzed on;
\* outcome[day] is what the predict call of an enabled day does.
RECURSIVE AnalyzeLoop(_, _, _, _)
AnalyzeLoop(days, schedules, outcome, analyzed) ==
    IF days = <<>>
    THEN analyzed
    ELSE LET day == Head(days) IN
         AnalyzeLoop(Tail(days), schedules, outcome,
                     AnalyzeDay(day, schedules[day],
                                IF day \in DOMAIN outcome THEN outcome[day] ELSE Raised,
                                analyzed))

\* schedules.items(), in order
Items(schedules) == SelectSeq(DayOrder, LAMBDA d : d \in DOMAIN schedules)

\* The days of a payload for which predict is called.
EnabledDays(schedules) == {d \in DOMAIN schedules : GetEnabled(schedules[d])}

\* A call log_irrigation(action, duration_minutes, volume_m3, mqtt_status, source)
\* as the activity log keeps it, with its caller: a loop thread th in its tick
\* of minute t, or (th = NoThread) the handler of request number t.
LogCall(th, t, action, duration, volume, status, source) ==
    [thread |-> th, t |-> t, action |-> action, duration_minutes |-> duration,
     volume_m3 |-> volume, mqtt_status |-> status, source |-> source]

\* A call mqtt_service.demarrer_arrosage_async(duration_seconds, volume_m3,
\* source), and how it ended.
MqttCall(seconds, volume, origin, result) ==
    [seconds |-> seconds, volume |-> volume, origin |-> origin, result |-> result]

\* No call to mqtt_service made in this tick.
NoCall == MqttCall(0, 0, "none", "none")

\* The value of an unbound local slot.
NoSlot ==
    [enabled |-> FALSE, startTime |-> None, ai_duration_minutes |-> 0,
     ai_volume_m3 |-> 0, ai_optimized |-> FALSE]

\* ------------------------------------------------------- receive_schedule

\* The store is replaced: every thread whose tick is deciding has now seen
\* this one too.
SeeStore(new) ==
    [th \in DOMAIN store_seen |->
        IF mpc[th] \in {"check", "lookup", "fire"}
        THEN store_seen[th] \cup {new} ELSE store_seen[th]]

\* lines 154-158 and 160-162: the handler answers; its locals are dead.
Respond(h, status) ==
    /\ response' = [response EXCEPT ![h] = status]
    /\ hpc' = [hpc EXCEPT ![h] = "idle"]
    /\ req_no' = [req_no EXCEPT ![h] = 0]
    /\ changed' = [changed EXCEPT ![h] = FALSE]

\* The server hands a request to an idle handler thread; which one is
\* immaterial, so it is the first.
Free(h) == hpc[h] = "idle" /\ (h = "h1" \/ hpc["h1"] # "idle")

\* lines 104-138: a request arrives with a schedules object, its days are
\* analysed and the store is replaced: active_schedules = analyzed_schedules.
Ingest(h) ==
    /\ Free(h)
    /\ n_requests < MaxRequests
    /\ n_requests' = n_requests + 1
    /\ req_no' = [req_no EXCEPT ![h] = n_requests + 1]
    /\ \E schedules \in Payloads :
       \E outcome \in [EnabledDays(schedules) -> Outcomes] :
        LET analyzed_schedules ==
                AnalyzeLoop(Items(schedules), schedules, outcome, EmptyDict) IN
        /\ active_schedules' = analyzed_schedules
        /\ written_payload' = schedules
        /\ written_outcome' = outcome
        /\ store_seen' = SeeStore(analyzed_schedules)
        /\ changed' = [changed EXCEPT ![h] = analyzed_schedules # active_schedules]
    /\ hpc' = [hpc EXCEPT ![h] = "check_thread"]
    /\ response' = [response EXCEPT ![h] = 0]
    /\ answer' = NoStatus
    /\ UNCHANGED <<clock, schedule_thread, mvars, fired, log, lvars>>

\* lines 104-105, 160-162: the body is JSON null: data.get raises, the handler
\* answers 500.
IngestNull(h) ==
    /\ Free(h)
    /\ n_requests < MaxRequests
    /\ n_requests' = n_requests + 1
    /\ Respond(h, 500)
    /\ answer' = NoStatus
    /\ UNCHANGED <<clock, active_schedules, schedule_thread, mvars, fired, log,
                   wvars, store_seen, lvars>>

\* schedule_thread.is_alive(): the thread was started (the loop never returns).
is_alive(th) == mpc[th] # "created"

\* lines 146-158: log_irrigation('schedule_received', ...) and the 200 response.
LogReceived(h) ==
    /\ log' = log \cup
          {LogCall(NoThread, req_no[h], "schedule_received", NoneNum, NoneNum,
                   "ok", "SCHEDULE_AI")}
    /\ Respond(h, 200)

\* A variant that waits at line 141 for a lock the loop holds across its call
\* to mqtt_service.
CheckThreadLocked(h) ==
    /\ hpc[h] = "check_thread"
    /\ \A th \in Threads : mpc[th] # "wait"
    /\ IF schedule_thread = NoThread \/ ~is_alive(schedule_thread)
       THEN /\ hpc' = [hpc EXCEPT ![h] = "new_thread"]
            /\ UNCHANGED <<response, req_no, changed, log>>
       ELSE LogReceived(h)
    /\ answer' = NoStatus
    /\ UNCHANGED <<clock, active_schedules, schedule_thread, n_requests, mvars,
                   fired, wvars, store_seen, lvars>>

\* line 141: if schedule_thread is None or not schedule_thread.is_alive();
\* with a live thread the handler goes on to lines 146-158.
CheckThread(h) ==
    /\ hpc[h] = "check_thread"
    /\ IF schedule_thread = NoThread \/ ~is_alive(schedule_thread)
       THEN /\ hpc' = [hpc EXCEPT ![h] = "new_thread"]
            /\ UNCHANGED <<response, req_no, changed, log>>
       ELSE LogReceived(h)
    /\ answer' = NoStatus
    /\ UNCHANGED <<clock, active_schedules, schedule_thread, n_requests, mvars,
                   fired, wvars, store_seen, lvars>>

\* line 142: schedule_thread = threading.Thread(target=monitor_schedules)
NewThread(h) ==
    /\ hpc[h] = "new_thread"
    /\ schedule_thread' = Len(mpc) + 1
    /\ mpc' = Append(mpc, "created")
    /\ current_time' = Append(current_time, 0)
    /\ schedule' = Append(schedule, NoSlot)
    /\ sleep_left' = Append(sleep_left, 0)
    /\ call' = Append(call, NoCall)
    /\ store_seen' = Append(store_seen, {})
    /\ hpc' = [hpc EXCEPT ![h] = "start_thread"]
    /\ answer' = NoStatus
    /\ UNCHANGED <<clock, active_schedules, response, n_requests, req_no, changed,
                   fired, log, wvars, lvars>>

\* line 143: schedule_thread.start() on the thread the global names now, then
\* lines 146-158; a thread already started raises RuntimeError, which lines
\* 160-162 answer with 500.
StartThread(h) ==
    /\ hpc[h] = "start_thread"
    /\ IF mpc[schedule_thread] = "created"
       THEN /\ mpc' = [mpc EXCEPT ![schedule_thread] = "sleep"]
            /\ LogReceived(h)
       ELSE /\ Respond(h, 500)
            /\ UNCHANGED <<mpc, log>>
    /\ answer' = NoStatus
    /\ UNCHANGED <<clock, active_schedules, schedule_thread, n_requests,
                   current_time, schedule, sleep_left, call, fired, wvars,
                   store_seen, lvars>>

\* ------------------------------------- receive_schedule, statement by statement

\* lines 104-110: a request arrives with a schedules object;
\* analyzed_schedules = {}.
Receive(h) ==
    /\ Free(h)
    /\ n_requests < MaxRequests
    /\ n_requests' = n_requests + 1
    /\ req_no' = [req_no EXCEPT ![h] = n_requests + 1]
    /\ \E schedules \in Payloads :
        /\ data' = [data EXCEPT ![h] = schedules]
        /\ todo' = [todo EXCEPT ![h] = Items(schedules)]
    /\ partial' = [partial EXCEPT ![h] = EmptyDict]
    /\ predicted' = [predicted EXCEPT ![h] = EmptyDict]
    /\ hpc' = [hpc EXCEPT ![h] = "analyze"]
    /\ response' = [response EXCEPT ![h] = 0]
    /\ answer' = NoStatus
    /\ UNCHANGED <<clock, active_schedules, schedule_thread, changed, mvars, fired,
                   log, wvars, store_seen>>

\* A variant that analyses into the global store itself, day by day.
AnalyzeNextInPlace(h) ==
    /\ hpc[h] = "analyze"
    /\ todo[h] # <<>>
    /\ LET day == Head(todo[h]) IN
        \E o \in IF data[h][day].enabled THEN Outcomes ELSE {Raised} :
            /\ partial' = [partial EXCEPT ![h] =
                  AnalyzeDay(day, data[h][day], o, partial[h])]
            /\ active_schedules' = AnalyzeDay(day, data[h][day], o, partial[h])
            /\ predicted' = [predicted EXCEPT ![h] =
                  IF data[h][day].enabled THEN Put(predicted[h], day, o)
                  ELSE predicted[h]]
    /\ todo' = [todo EXCEPT ![h] = Tail(todo[h])]
    /\ answer' = NoStatus
    /\ UNCHANGED <<clock, schedule_thread, hvars, data, mvars, fired, log, wvars,
                   store_seen>>

\* lines 111-135: one turn of the loop over schedules.items(), for the next day:
\* the predict call of an enabled day returns or raises, and the local
\* analyzed_schedules gets the day's slot.
AnalyzeNext(h) ==
    /\ hpc[h] = "analyze"
    /\ todo[h] # <<>>
    /\ LET day == Head(todo[h]) IN
        \E o \in IF GetEnabled(data[h][day]) THEN Outcomes ELSE {Raised} :
            /\ partial' = [partial EXCEPT ![h] =
                  AnalyzeDay(day, data[h][day], o, partial[h])]
            /\ predicted' = [predicted EXCEPT ![h] =
                  IF GetEnabled(data[h][day]) THEN Put(predicted[h], day, o)
                  ELSE predicted[h]]
    /\ todo' = [todo EXCEPT ![h] = Tail(todo[h])]
    /\ answer' = NoStatus
    /\ UNCHANGED <<clock, active_schedules, schedule_thread, hvars, data, mvars,
                   fired, log, wvars, store_seen>>

\* A variant that updates the store in place: active_schedules.update(...).
ReplaceMerging(h) ==
    LET merged ==
            [k \in DOMAIN active_schedules \cup DOMAIN partial[h] |->
                IF k \in DOMAIN partial[h] THEN partial[h][k] ELSE active_schedules[k]]
    IN  /\ hpc[h] = "analyze"
        /\ todo[h] = <<>>
        /\ active_schedules' = merged
        /\ written_payload' = data[h]
        /\ written_outcome' = predicted[h]
        /\ store_seen' = SeeStore(merged)
        /\ changed' = [changed EXCEPT ![h] = merged # active_schedules]
        /\ data' = [data EXCEPT ![h] = EmptyDict]
        /\ partial' = [partial EXCEPT ![h] = EmptyDict]
        /\ predicted' = [predicted EXCEPT ![h] = EmptyDict]
        /\ hpc' = [hpc EXCEPT ![h] = "check_thread"]
        /\ answer' = NoStatus
        /\ UNCHANGED <<clock, schedule_thread, response, n_requests, req_no, todo,
                       mvars, fired, log>>

\* line 138, after the last day: active_schedules = analyzed_schedules.
Replace(h) ==
    /\ hpc[h] = "analyze"
    /\ todo[h] = <<>>
    /\ active_schedules' = partial[h]
    /\ written_payload' = data[h]
    /\ written_outcome' = predicted[h]
    /\ store_seen' = SeeStore(partial[h])
    /\ changed' = [changed EXCEPT ![h] = partial[h] # active_schedules]
    /\ data' = [data EXCEPT ![h] = EmptyDict]
    /\ partial' = [partial EXCEPT ![h] = EmptyDict]
    /\ predicted' = [predicted EXCEPT ![h] = EmptyDict]
    /\ hpc' = [hpc EXCEPT ![h] = "check_thread"]
    /\ answer' = NoStatus
    /\ UNCHANGED <<clock, schedule_thread, response, n_requests, req_no, todo,
                   mvars, fired, log>>

\* ------------------------------------------------------ monitor_schedules

\* line 183: french_day and french_day in active_schedules
InStore(day, store) == day # None /\ day \in DOMAIN store

\* A variant that reads with a default, active_schedules.get(french_day, default),
\* instead of raising.
GetItemDefault(store, day) ==
    [raised |-> FALSE,
     value |-> IF day \in DOMAIN store
               THEN store[day]
               ELSE [enabled |-> TRUE, startTime |-> Times[1],
                     ai_duration_minutes |-> 30 * Centi, ai_volume_m3 |-> 600,
                     ai_optimized |-> FALSE]]

\* line 184: active_schedules[french_day], which raises KeyError on a missing key
GetItem(store, day) ==
    IF day \in DOMAIN store
    THEN [raised |-> FALSE, value |-> store[day]]
    ELSE [raised |-> TRUE, value |-> NoSlot]

\* A variant that does not compare the start time.
MatchesAnyTime(s, hour_min) == s.enabled

\* line 186: schedule.get('enabled') and schedule.get('startTime') == current_hour_min
Matches(s, hour_min) == GetEnabled(s) /\ s.startTime = hour_min

\* A variant that rounds to the nearest second: round(duration_minutes * 60).
duration_seconds_rounded(duration_minutes) ==
    (duration_minutes * 60 * 2 + Centi) \div (2 * Centi)

\* line 192: int(duration_minutes * 60), which truncates
duration_seconds(duration_minutes) == (duration_minutes * 60) \div Centi

\* lines 212 and 216: time.sleep(60) begins; the locals of the tick are dead.
Sleep(th) ==
    /\ mpc' = [mpc EXCEPT ![th] = "sleep"]
    /\ sleep_left' = [sleep_left EXCEPT ![th] = SleepMinutes]
    /\ current_time' = [current_time EXCEPT ![th] = 0]
    /\ schedule' = [schedule EXCEPT ![th] = NoSlot]
    /\ call' = [call EXCEPT ![th] = NoCall]
    /\ store_seen' = [store_seen EXCEPT ![th] = {}]

\* lines 169-181: time.sleep(60) has returned, or the thread has just started:
\* a tick begins and reads the wall clock.
Now(th) ==
    /\ mpc[th] = "sleep"
    /\ sleep_left[th] = 0
    /\ current_time' = [current_time EXCEPT ![th] = clock]
    /\ mpc' = [mpc EXCEPT ![th] = "check"]
    /\ store_seen' = [store_seen EXCEPT ![th] = {active_schedules}]
    /\ answer' = NoStatus
    /\ UNCHANGED <<clock, active_schedules, schedule_thread, hvars, schedule,
                   sleep_left, call, fired, log, wvars, lvars>>

\* line 183: is the day in the store?
Check(th) ==
    /\ mpc[th] = "check"
    /\ IF InStore(french_day(current_time[th]), active_schedules)
       THEN /\ mpc' = [mpc EXCEPT ![th] = "lookup"]
            /\ UNCHANGED <<current_time, schedule, sleep_left, call, store_seen>>
       ELSE Sleep(th)
    /\ answer' = NoStatus
    /\ UNCHANGED <<clock, active_schedules, schedule_thread, hvars, fired, log,
                   wvars, lvars>>

\* lines 184-186: the slot is read and compared with the tick's hour and minute;
\* a KeyError goes to the handler of lines 214-216.
Lookup(th) ==
    /\ mpc[th] = "lookup"
    /\ LET got == GetItem(active_schedules, french_day(current_time[th])) IN
        IF ~got.raised /\ Matches(got.value, current_hour_min(current_time[th]))
        THEN /\ schedule' = [schedule EXCEPT ![th] = got.value]
             /\ mpc' = [mpc EXCEPT ![th] = "fire"]
             /\ UNCHANGED <<current_time, sleep_left, call, store_seen>>
        ELSE Sleep(th)
    /\ answer' = NoStatus
    /\ UNCHANGED <<clock, active_schedules, schedule_thread, hvars, fired, log,
                   wvars, lvars>>

\* A variant that reads the duration from the global store again, not from the
\* local slot.
FireFromStore(th) ==
    /\ mpc[th] = "fire"
    /\ LET day == french_day(current_time[th])
           duration_minutes ==
               IF day \in DOMAIN active_schedules
               THEN active_schedules[day].ai_duration_minutes
               ELSE 30 * Centi IN
        call' = [call EXCEPT ![th] =
            MqttCall(duration_seconds(duration_minutes), schedule[th].ai_volume_m3,
                     "SCHEDULE_AI", "pending")]
    /\ fired' = fired \cup {<<th, current_time[th]>>}
    /\ mpc' = [mpc EXCEPT ![th] = "wait"]
    /\ answer' = NoStatus
    /\ UNCHANGED <<clock, active_schedules, schedule_thread, hvars, current_time,
                   schedule, sleep_left, log, wvars, store_seen, lvars>>

\* lines 190-197: the arguments are read from the local slot and the call to
\* mqtt_service.demarrer_arrosage_async is issued.
Fire(th) ==
    /\ mpc[th] = "fire"
    /\ call' = [call EXCEPT ![th] =
          MqttCall(duration_seconds(schedule[th].ai_duration_minutes),
                   schedule[th].ai_volume_m3, "SCHEDULE_AI", "pending")]
    /\ fired' = fired \cup {<<th, current_time[th]>>}
    /\ mpc' = [mpc EXCEPT ![th] = "wait"]
    /\ answer' = NoStatus
    /\ UNCHANGED <<clock, active_schedules, schedule_thread, hvars, current_time,
                   schedule, sleep_left, log, wvars, store_seen, lvars>>

\* lines 195-199: the call returns (True, message).
ReturnSuccess(th) ==
    /\ mpc[th] = "wait"
    /\ call' = [call EXCEPT ![th].result = "success"]
    /\ mpc' = [mpc EXCEPT ![th] = "log"]
    /\ store_seen' = [store_seen EXCEPT ![th] = {}]
    /\ answer' = NoStatus
    /\ UNCHANGED <<clock, active_schedules, schedule_thread, hvars, current_time,
                   schedule, sleep_left, fired, log, wvars, lvars>>

\* A variant without the test of line 199: a failed call is logged too.
ReturnFailureLogged(th) ==
    /\ mpc[th] = "wait"
    /\ call' = [call EXCEPT ![th].result = "failure"]
    /\ mpc' = [mpc EXCEPT ![th] = "log"]
    /\ store_seen' = [store_seen EXCEPT ![th] = {}]
    /\ answer' = NoStatus
    /\ UNCHANGED <<clock, active_schedules, schedule_thread, hvars, current_time,
                   schedule, sleep_left, fired, log, wvars, lvars>>

\* A variant without the handler of lines 214-216: the error ends the thread.
ReturnFailureDies(th) ==
    /\ mpc[th] = "wait"
    /\ mpc' = [mpc EXCEPT ![th] = "dead"]
    /\ sleep_left' = [sleep_left EXCEPT ![th] = 0]
    /\ current_time' = [current_time EXCEPT ![th] = 0]
    /\ schedule' = [schedule EXCEPT ![th] = NoSlot]
    /\ call' = [call EXCEPT ![th] = NoCall]
    /\ store_seen' = [store_seen EXCEPT ![th] = {}]
    /\ answer' = NoStatus
    /\ UNCHANGED <<clock, active_schedules, schedule_thread, hvars, fired, log,
                   wvars, lvars>>

\* lines 195-199, 208-216: the call returns (False, message) or raises.
ReturnFailure(th) ==
    /\ mpc[th] = "wait"
    /\ Sleep(th)
    /\ answer' = NoStatus
    /\ UNCHANGED <<clock, active_schedules, schedule_thread, hvars, fired, log,
                   wvars, lvars>>

\* lines 199-207: log_irrigation('schedule_executed', ...) after a success.
LogExecuted(th) ==
    /\ mpc[th] = "log"
    /\ log' = log \cup
          {LogCall(th, current_time[th], "schedule_executed",
                   schedule[th].ai_duration_minutes, schedule[th].ai_volume_m3,
                   "started", "SCHEDULE_AI")}
    /\ Sleep(th)
    /\ answer' = NoStatus
    /\ UNCHANGED <<clock, active_schedules, schedule_thread, hvars, fired, wvars,
                   lvars>>

\* lines 183-197 run against one store: the call a tick of minute t issues, or
\* NoCall.
Decision(store, t) ==
    IF InStore(french_day(t), store)
       /\ Matches(store[french_day(t)], current_hour_min(t))
    THEN MqttCall(duration_seconds(store[french_day(t)].ai_duration_minutes),
                  store[french_day(t)].ai_volume_m3, "SCHEDULE_AI", "pending")
    ELSE NoCall

\* A minute of the wall clock passes.
Minute ==
    /\ clock < MaxClock
    /\ clock' = clock + 1
    /\ sleep_left' = [th \in DOMAIN sleep_left |->
          IF sleep_left[th] > 0 THEN sleep_left[th] - 1 ELSE 0]
    /\ answer' = NoStatus
    /\ UNCHANGED <<active_schedules, schedule_thread, hvars, mpc, current_time,
                   schedule, call, fired, log, wvars, store_seen, lvars>>

\* ---------------------------------------------------- get_schedule_status

\* line 225: schedule_thread is not None and schedule_thread.is_alive()
monitoring_active == schedule_thread # NoThread /\ is_alive(schedule_thread)

\* A variant that records the query in the activity log.
GetStatusLogged ==
    /\ answer' = StatusBody(active_schedules, monitoring_active, TRUE)
    /\ log' = log \cup
          {LogCall(NoThread, 0, "status", NoneNum, NoneNum, "ok", "API")}
    /\ UNCHANGED <<clock, active_schedules, schedule_thread, hvars, mvars, fired,
                   wvars, store_seen, lvars>>

\* lines 219-227: the status query reads the two globals and answers 200.  The
\* two reads are one step: nothing below relates the one to the other.
GetStatus ==
    /\ answer' = StatusBody(active_schedules, monitoring_active, TRUE)
    /\ UNCHANGED <<clock, active_schedules, schedule_thread, hvars, mvars, fired,
                   log, wvars, store_seen, lvars>>

\* ------------------------------------------------------------ specification

Next ==
    \/ \E h \in Handlers :
        \/ Ingest(h)
        \/ IngestNull(h)
        \/ CheckThread(h)
        \/ NewThread(h)
        \/ StartThread(h)
    \/ \E th \in Threads :
        \/ Now(th)
        \/ Check(th)
        \/ Lookup(th)
        \/ Fire(th)
        \/ ReturnSuccess(th)
        \/ ReturnFailure(th)
        \/ LogExecuted(th)
    \/ Minute
    \/ GetStatus

Spec == Init /\ [][Next]_vars

\* receive_schedule statement by statement: lines 104-138 as the steps Receive,
\* AnalyzeNext and Replace in place of the one step Ingest.
StepNext ==
    \/ \E h \in Handlers :
        \/ Receive(h)
        \/ AnalyzeNext(h)
        \/ Replace(h)
        \/ IngestNull(h)
        \/ CheckThread(h)
        \/ NewThread(h)
        \/ StartThread(h)
    \/ \E th \in Threads :
        \/ Now(th)
        \/ Check(th)
        \/ Lookup(th)
        \/ Fire(th)
        \/ ReturnSuccess(th)
        \/ ReturnFailure(th)
        \/ LogExecuted(th)
    \/ Minute

StepSpec == Init /\ [][StepNext]_vars

\* Each request creates at most one loop thread.
MaxThreads == MaxRequests

\* A step of the loop thread th.
ThreadStep(th) ==
    /\ th \in Threads
    /\ \/ Now(th)
       \/ Check(th)
       \/ Lookup(th)
       \/ Fire(th)
       \/ ReturnSuccess(th)
       \/ ReturnFailure(th)
       \/ LogExecuted(th)

\* The specification with the scheduling the loop relies on: time passes, a
\* started thread gets to run, and a call to mqtt_service returns.
LiveSpec ==
    /\ Spec
    /\ WF_vars(Minute)
    /\ \A th \in 1..MaxThreads : WF_vars(ThreadStep(th))

\* A step of handler h after its request has replaced the store.
HandlerStep(h) == CheckThread(h) \/ NewThread(h) \/ StartThread(h)

\* The specification with the server's scheduling only: a handler thread gets
\* to run.  Nothing makes a call to mqtt_service return or a loop thread run.
ServeSpec ==
    /\ Spec
    /\ \A h \in Handlers : WF_vars(HandlerStep(h))

\* ------------------------------------------------------------- properties

\* A loop thread in a tick that has decided to call, is calling or has called
\* mqtt_service.
InCall(th) == mpc[th] \in {"fire", "wait", "log"}

\* The thread th sleeps after a tick it began and ended in minute 0, and the only
\* request ever received replaced the store before th was started.
QuietTickAtZero(th) ==
    /\ mpc[th] = "sleep"
    /\ sleep_left[th] = SleepMinutes
    /\ clock = 0
    /\ n_requests = 1

\* C1, as stated: within one wall-clock minute mqtt_service is called at most
\* once, however many ticks fall into that minute.
AtMostOneFirePerMinute ==
    \A e1 \in fired : \A e2 \in fired : e1[2] = e2[2] => e1 = e2

\* C2, as stated: once a call has been attempted for a minute, be it slow or
\* failed, no second call is attempted for that minute.
NoSecondAttemptInMinute ==
    [][\A e \in fired' \ fired : \A e0 \in fired : e0[2] # e[2]]_vars

\* C3: a tick calls mqtt_service only with a slot that a store held under the
\* tick's own day during the tick, that is enabled and whose startTime is the
\* tick's hour and minute.
FiresOnlyOnExactMatch ==
    \A th \in Threads :
        /\ InCall(th) =>
            /\ schedule[th].enabled
            /\ schedule[th].startTime = current_hour_min(current_time[th])
        /\ mpc[th] \in {"fire", "wait"} =>
            \E m \in store_seen[th] :
                /\ french_day(current_time[th]) \in DOMAIN m
                /\ m[french_day(current_time[th])] = schedule[th]

\* C3, the case: a call is in progress for the slot of the tick's day and minute.
FiredOnMatch ==
    \E th \in Threads :
        /\ mpc[th] = "wait"
        /\ <<th, current_time[th]>> \in fired
        /\ french_day(current_time[th]) \in DOMAIN active_schedules
        /\ active_schedules[french_day(current_time[th])].startTime
              = current_hour_min(current_time[th])

\* C4: a tick that finds the store without an entry for its day, at the test of
\* line 183 or at the read of line 184, has made no call, and ends there with no
\* call to mqtt_service and no call to log_irrigation.
AbsentDayNoAction ==
    [][\A th \in Threads :
        (/\ mpc[th] \in {"check", "lookup"}
         /\ french_day(current_time[th]) \notin DOMAIN active_schedules
         /\ mpc'[th] # mpc[th])
        => /\ call[th] = NoCall
           /\ mpc'[th] = "sleep"
           /\ fired' = fired
           /\ log' = log]_vars

\* C4, the case: a tick of Monday 08:00 has run to its end against a store with
\* no entry for Monday, and nothing was called.
AbsentDayTickDone ==
    \E th \in Threads :
        /\ QuietTickAtZero(th)
        /\ french_day(0) \notin DOMAIN active_schedules
        /\ fired = {}
        /\ \A l \in log : l.action # "schedule_executed"

\* C5: the store written from a payload holds no enabled slot for a day the
\* payload disables, and a tick gets to the call only with an enabled slot that
\* a store held under the tick's day during the tick.
DisabledNeverFires ==
    /\ \A d \in DOMAIN written_payload :
        ~written_payload[d].enabled =>
            ~(d \in DOMAIN active_schedules /\ active_schedules[d].enabled)
    /\ \A th \in Threads :
        /\ InCall(th) => schedule[th].enabled
        /\ mpc[th] = "fire" =>
            \E m \in store_seen[th] :
                /\ french_day(current_time[th]) \in DOMAIN m
                /\ m[french_day(current_time[th])].enabled

\* C5, the case: the payload disables Monday with startTime 08:00, a tick of
\* Monday 08:00 has run to its end, and nothing was called.
DisabledSlotTickDone ==
    \E th \in Threads :
        /\ QuietTickAtZero(th)
        /\ french_day(0) \in DOMAIN written_payload
        /\ ~written_payload[french_day(0)].enabled
        /\ written_payload[french_day(0)].startTime = current_hour_min(0)
        /\ fired = {}

\* The record log_irrigation gets for the call of thread th's tick.
ExecutedRecord(th) ==
    LogCall(th, current_time[th], "schedule_executed",
            schedule[th].ai_duration_minutes, schedule[th].ai_volume_m3,
            "started", "SCHEDULE_AI")

\* C6, as stated: the call's duration is the slot's minutes times 60 rounded to
\* the nearest second, its volume the slot's volume, its origin "SCHEDULE_AI".
CallArgumentsRounded ==
    \A th \in Threads :
        mpc[th] \in {"wait", "log"} =>
            /\ 2 * (Centi * call[th].seconds - 60 * schedule[th].ai_duration_minutes)
                  <= Centi
            /\ 2 * (60 * schedule[th].ai_duration_minutes - Centi * call[th].seconds)
                  <= Centi
            /\ call[th].volume = schedule[th].ai_volume_m3
            /\ call[th].origin = "SCHEDULE_AI"

\* C6, amended: the call's duration is the slot's minutes times 60 with the
\* fraction of a second cut off, its volume the slot's volume, its origin
\* "SCHEDULE_AI".
CallArgumentsTruncated ==
    \A th \in Threads :
        mpc[th] \in {"wait", "log"} =>
            /\ Centi * call[th].seconds <= 60 * schedule[th].ai_duration_minutes
            /\ 60 * schedule[th].ai_duration_minutes < Centi * (call[th].seconds + 1)
            /\ call[th].volume = schedule[th].ai_volume_m3
            /\ call[th].origin = "SCHEDULE_AI"

\* C6, the case: a call is in progress for a slot whose minutes times 60 is not
\* a whole number of seconds.
CalledWithFraction ==
    \E th \in Threads :
        /\ mpc[th] = "wait"
        /\ (60 * schedule[th].ai_duration_minutes) % Centi # 0
        /\ call[th].seconds > 0

\* C7: log_irrigation gets the record of a tick's call if the call returned
\* success and only then: a call that fails ends the tick with no record and no
\* second call, a call that succeeds is followed by its one record, of action
\* schedule_executed and status started with the slot's duration and volume, and
\* no record of that action comes from anywhere else.
LogIffSuccess ==
    [][\A th \in Threads :
        /\ (mpc[th] = "wait" /\ mpc'[th] = "sleep") =>
            (log' = log /\ fired' = fired)
        /\ mpc[th] = "log" => call[th].result = "success"
        /\ (mpc[th] = "wait" /\ mpc'[th] = "log") =>
            (call'[th].result = "success" /\ log' = log /\ fired' = fired)
        /\ (mpc[th] = "log" /\ mpc'[th] # "log") =>
            (log' = log \cup {ExecutedRecord(th)} /\ fired' = fired)
        /\ \A l \in log' \ log :
            l.action = "schedule_executed" =>
                /\ l.thread \in Threads
                /\ mpc[l.thread] = "log"
                /\ call[l.thread].result = "success"
                /\ l = ExecutedRecord(l.thread)]_vars

\* C7, the case: a call has succeeded and its record is in the log.
ExecutedLogged ==
    \E l \in log :
        /\ l.action = "schedule_executed"
        /\ l.mqtt_status = "started"
        /\ <<l.thread, l.t>> \in fired

\* C8: an enabled day whose prediction raised is stored with 30 minutes, 0.6 m3,
\* not optimized, and the enabled flag and startTime of the payload.
FallbackSlotStored ==
    \A d \in DOMAIN written_payload :
        (written_payload[d].enabled /\ ~written_outcome[d].ok) =>
            /\ d \in DOMAIN active_schedules
            /\ active_schedules[d] =
                  [enabled |-> written_payload[d].enabled,
                   startTime |-> written_payload[d].startTime,
                   ai_duration_minutes |-> 3000,
                   ai_volume_m3 |-> 600,
                   ai_optimized |-> FALSE]

\* C8, the case: the store holds the slot of a day whose prediction raised.
FallbackInStore ==
    \E d \in DOMAIN written_payload :
        /\ written_payload[d].enabled
        /\ ~written_outcome[d].ok
        /\ d \in DOMAIN active_schedules

\* C9: when the prediction of one enabled day raises, every other enabled day
\* of the payload whose prediction returned is stored optimized with its own
\* prediction, and the store holds all enabled days of the payload.
PartialFailureIsolated ==
    \A d \in DOMAIN written_payload :
        (written_payload[d].enabled /\ ~written_outcome[d].ok) =>
            /\ DOMAIN active_schedules
                  = {e \in DOMAIN written_payload : written_payload[e].enabled}
            /\ \A e \in DOMAIN written_payload \ {d} :
                (written_payload[e].enabled /\ written_outcome[e].ok) =>
                    active_schedules[e] =
                        [enabled |-> written_payload[e].enabled,
                         startTime |-> written_payload[e].startTime,
                         ai_duration_minutes |-> written_outcome[e].duree_minutes,
                         ai_volume_m3 |-> written_outcome[e].volume_m3,
                         ai_optimized |-> TRUE]

\* C9, the case: the store holds the analysis of a payload of which one day's
\* prediction raised and a later day's prediction returned.
MixedAnalysisStored ==
    /\ DOMAIN written_payload = {DayOrder[1], DayOrder[2]}
    /\ written_payload[DayOrder[1]].enabled
    /\ written_payload[DayOrder[2]].enabled
    /\ ~written_outcome[DayOrder[1]].ok
    /\ written_outcome[DayOrder[2]].ok
    /\ active_schedules[DayOrder[2]].ai_optimized

\* C10: whatever replacements of the store fall into a tick, the tick ends
\* without a call only if run against one of the stores held during it it makes
\* no call, and the call it issues is the call it issues when run against one
\* of them.
ReplaceAtomicForTick ==
    [][\A th \in Threads :
        /\ (mpc[th] \in {"check", "lookup"} /\ mpc'[th] = "sleep") =>
            \E m \in store_seen[th] : Decision(m, current_time[th]) = NoCall
        /\ (mpc[th] = "fire" /\ mpc'[th] = "wait") =>
            \E m \in store_seen[th] : Decision(m, current_time[th]) = call'[th]]_vars

\* C10, the case: a call is in progress in a tick during which the store was
\* replaced by a different one.
CalledAcrossReplace ==
    \E th \in Threads :
        /\ mpc[th] = "wait"
        /\ Cardinality(store_seen[th]) > 1

\* The positions of a loop thread: none of them is past the end of the loop.
LoopPositions == {"created", "sleep", "check", "lookup", "fire", "wait", "log"}

\* C11: no tick ends the loop: a thread is always at a position of the loop,
\* every end of a tick, the ends by a failed or raising call and by a raising
\* evaluation included, puts it to sleep, and a sleeping thread ticks again once
\* the minute has passed.
LoopSurvivesErrors ==
    /\ [](\A th \in Threads : mpc[th] \in LoopPositions)
    /\ \A th \in 1..MaxThreads :
        []((/\ th \in Threads
            /\ mpc[th] = "sleep"
            /\ sleep_left[th] > 0
            /\ clock < MaxClock)
           => <>(th \in Threads /\ mpc[th] = "check"))

\* C11, the case: a thread whose call of an earlier minute did not succeed (it
\* left no record) is calling again for a later minute.
FiresAgainAfterFailure ==
    \E th \in Threads :
        \E e \in fired :
            /\ e[1] = th
            /\ e[2] < current_time[th]
            /\ mpc[th] = "wait"
            /\ \A l \in log : ~(l.thread = th /\ l.t = e[2])

\* C12: the store changes only in the step in which a handler that has
\* processed every day of its payload leaves the analysis, that step assigns
\* the handler's local mapping, which is the complete analysis of its payload,
\* and a handler past that step does not return to the analysis within its
\* request: the store never holds a part of the mapping being built.
ReplacedOnceWhenComplete ==
    [][/\ active_schedules' # active_schedules =>
            \E h \in Handlers :
                /\ hpc[h] = "analyze"
                /\ hpc'[h] = "check_thread"
                /\ todo[h] = <<>>
                /\ active_schedules' = partial[h]
                /\ DOMAIN partial[h] = EnabledDays(data[h])
                /\ partial[h] =
                      AnalyzeLoop(Items(data[h]), data[h], predicted[h], EmptyDict)
       /\ \A h \in Handlers :
            /\ (hpc[h] = "analyze" /\ hpc'[h] # "analyze") =>
                  (todo[h] = <<>> /\ active_schedules' = partial[h])
            /\ hpc[h] \in {"check_thread", "new_thread", "start_thread"} =>
                  hpc'[h] # "analyze"]_vars

\* C12, the case: a handler has analysed one of the two days of its payload,
\* and the store holds the two days of an earlier request.
MidAnalysis ==
    \E h \in Handlers :
        /\ hpc[h] = "analyze"
        /\ Len(todo[h]) = 1
        /\ Cardinality(DOMAIN partial[h]) = 1
        /\ Cardinality(DOMAIN active_schedules) = 2
        /\ active_schedules # partial[h]

\* C13, as stated: after an update every day of its payload, the disabled days
\* included, has an entry in the store.
DisabledSlotsStored ==
    \A d \in DOMAIN written_payload : d \in DOMAIN active_schedules

\* C14, as stated: a loop that is asked to stop returns from monitor_schedules
\* in the end.  The loop reads no stop signal, so its steps are the same
\* whether one was given or not: here it is given as soon as the loop is live.
StoppedLoopTerminates ==
    \A th \in 1..MaxThreads :
        []((th \in Threads /\ is_alive(th))
           => <>(th \in Threads /\ mpc[th] \notin LoopPositions))

\* C15, as stated: at most one monitor_schedules thread is alive at any time.
AtMostOneLoop ==
    Cardinality({th \in Threads : is_alive(th)}) <= 1

\* C16: while a loop thread is inside its call to mqtt_service, for however
\* long, a free handler can take a request and replace the store, and every
\* request in progress is answered.
IngestionNotBlocked ==
    /\ [](\A h \in Handlers :
            (/\ \E th \in Threads : mpc[th] = "wait"
             /\ Free(h)
             /\ n_requests < MaxRequests)
            => ENABLED Ingest(h))
    /\ \A h \in Handlers : [](hpc[h] # "idle" => <>(hpc[h] = "idle"))

\* C16, the case: a request that has replaced the store is in progress while a
\* loop thread is inside its call to mqtt_service.
ServingWhileBlocked ==
    \E th \in Threads :
        \E h \in Handlers :
            /\ mpc[th] = "wait"
            /\ hpc[h] = "check_thread"
            /\ changed[h]

\* C17: a step that answers a status query changes nothing but the answer: not
\* the store, not the loop threads or the global that names one, no call to
\* mqtt_service, ml_service or log_irrigation; and the answer holds the store
\* and whether the thread schedule_thread names is alive, as they are.
StatusQueryHasNoEffect ==
    [][answer'.answered =>
        /\ UNCHANGED <<clock, active_schedules, schedule_thread, hvars, mvars,
                       fired, log, wvars, store_seen, lvars>>
        /\ answer'.active_schedules = active_schedules
        /\ answer'.monitoring_active
              = (schedule_thread # NoThread /\ mpc[schedule_thread] # "created")]_vars

\* C17, the case: a status query has answered with a store that is not empty
\* and a live loop.
StatusAnswered ==
    /\ answer.answered
    /\ answer.monitoring_active
    /\ DOMAIN answer.active_schedules # {}

\* C18, as stated: a request that is answered with a failure has not altered
\* the store.
FailedUpdateLeavesStore ==
    [][\A h \in Handlers :
        (/\ response'[h] = 500
         /\ hpc'[h] = "idle"
         /\ (hpc[h] # "idle" \/ n_requests' # n_requests))
        => ~changed[h]]_vars

\* C19: the store is at all times, and so once all requests are answered, the
\* complete analysis of the one payload that was assigned last: its keys are
\* the enabled days of that payload and each slot is that payload's entry with
\* the outcome of that request's own predict call.
StoreIsOneUpdate ==
    /\ DOMAIN active_schedules
          = {d \in DOMAIN written_payload : written_payload[d].enabled}
    /\ \A d \in DOMAIN active_schedules :
        /\ active_schedules[d].startTime = written_payload[d].startTime
        /\ active_schedules[d].ai_optimized = written_outcome[d].ok
        /\ written_outcome[d].ok =>
            /\ active_schedules[d].ai_duration_minutes = written_outcome[d].duree_minutes
            /\ active_schedules[d].ai_volume_m3 = written_outcome[d].volume_m3
    /\ active_schedules
          = AnalyzeLoop(Items(written_payload), written_payload, written_outcome,
                        EmptyDict)

\* C19, the case: two requests handled at the same time, each of which started
\* a loop thread, are answered, and the store is not empty.
ConcurrentUpdatesDone ==
    /\ \A h \in Handlers : hpc[h] = "idle"
    /\ n_requests = 2
    /\ Len(mpc) = 2
    /\ DOMAIN active_schedules # {}

\* C20, as stated: before the first request no loop is alive and a status query
\* answers monitoring_active = false; once a request has been answered with
\* success (its schedule_received record is in the log), a loop is alive and a
\* status query answers monitoring_active = true.
LazyStartThenAlive ==
    /\ n_requests = 0 =>
        /\ \A th \in Threads : ~is_alive(th)
        /\ answer.answered => ~answer.monitoring_active
    /\ (\E l \in log : l.action = "schedule_received") =>
        /\ \E th \in Threads : is_alive(th)
        /\ answer.answered => answer.monitoring_active

====
